---- MODULE Spec2Model ----
(***************************************************************************)
(* bitnuc: 2-bit packing of nucleotide sequences.                          *)
(*                                                                         *)
(* A byte is a natural number 0..255 (its ASCII code).  A u64 word is the  *)
(* set of the positions (0..63) of its one-bits, so that or, and, xor and  *)
(* the shifts are exact at width 64: a bit shifted past position 63 is     *)
(* lost.  A Vec<T> is a sequence; Rust index i is TLA+ index i + 1.        *)
(***************************************************************************)
EXTENDS Integers, Sequences, FiniteSets, TLC

VARIABLES
    platform,         \* the kernels the build and CPU select
    overflow_checks,  \* whether the build checks integer overflow
    seq,              \* the caller's byte sequence
    seq2,             \* a second byte sequence, compared with seq
    packed,           \* the word as_2bit returned
    ebuf,             \* the caller's word buffer
    ebuf2,            \* the word buffer of seq2
    dbuf,             \* the caller's byte buffer
    lbuf,             \* split_packed's left output buffer
    rbuf,             \* split_packed's right output buffer
    n_in,             \* the base count given to the last call
    idx_in,           \* the index given to the last split_packed call
    dist,             \* the distance hdist returned
    res,              \* the Result of the last call
    oob,              \* the last pack call loaded bytes past its slice
    calls,            \* calls made so far
    pc                \* the last operation called

vars == <<platform, overflow_checks, seq, seq2, packed, ebuf, ebuf2, dbuf,
          lbuf, rbuf, n_in, idx_in, dist, res, oob, calls, pc>>

build == <<platform, overflow_checks>>
split_vars == <<lbuf, rbuf, idx_in>>
hdist_vars == <<seq2, ebuf2, dist>>

----------------------------------------------------------------------------
(* Bounds of the model.                                                    *)

\* longest input handed to the single-word operations (beyond 32)
MaxWordLen == 34
\* longest input handed to the stream operations (two words and a tail)
MaxStreamLen == 66
\* calls of encode on one buffer
MaxCalls == 2
\* number of letter patterns the inputs are generated from
NumPatterns == 2

\* the longest sequence split, and the longest pair compared
MaxSplitLen == 66
MaxHammingLen == 162

\* the longest sequence decoded into a reused output buffer
MaxAppendLen == 40

----------------------------------------------------------------------------
(* u64 arithmetic on bit sets.                                             *)

WordBits == 64
BasesPerWord == 32

ZeroWord == {}
AllOnes == 0 .. (WordBits - 1)

\* the word holding a small value (v < 256)
FromInt(v) ==
    {i \in 0 .. 7 : (v \div <<1, 2, 4, 8, 16, 32, 64, 128>>[i + 1]) % 2 = 1}

Shl(w, k) == {i + k : i \in {j \in w : j + k < WordBits}}
Shr(w, k) == {i - k : i \in {j \in w : j >= k}}
BitOr(a, b) == a \cup b
BitAnd(a, b) == a \cap b
BitXor(a, b) == (a \ b) \cup (b \ a)
CountOnes(w) == Cardinality(w)

\* w - 1 (wrapping)
Dec(w) ==
    IF w = {} THEN AllOnes
    ELSE LET k == CHOOSE i \in w : \A j \in w : i <= j
         IN (w \ {k}) \cup (0 .. (k - 1))

DivCeil(a, b) == (a + b - 1) \div b

----------------------------------------------------------------------------
(* NucleotideError and the outcome of a call.                              *)

Ok == [tag |-> "Ok", kind |-> "", arg |-> 0, arg2 |-> 0]
Err(kind, arg) == [tag |-> "Err", kind |-> kind, arg |-> arg, arg2 |-> 0]
Err2(kind, arg, arg2) == [tag |-> "Err", kind |-> kind, arg |-> arg, arg2 |-> arg2]
\* the call did not return: a panic (overflow check, index out of range)
Panic(why) == [tag |-> "Panic", kind |-> why, arg |-> 0, arg2 |-> 0]
NoResult == [tag |-> "None", kind |-> "", arg |-> 0, arg2 |-> 0]

----------------------------------------------------------------------------
(* Bytes.                                                                  *)

Byte_A == 65
Byte_C == 67
Byte_G == 71
Byte_T == 84
Byte_a == 97
Byte_c == 99
Byte_g == 103
Byte_t == 116
Byte_N == 78
\* b'n', the lowercase of b'N'
Byte_n == Byte_N + 32

ValidBytes == {Byte_A, Byte_C, Byte_G, Byte_T, Byte_a, Byte_c, Byte_g, Byte_t}

\* the `match base` without the lowercase alternatives: `b'A' => 0b00`
BaseBits_upper_only(base) ==
    CASE base = Byte_A -> 0
      [] base = Byte_C -> 1
      [] base = Byte_G -> 2
      [] base = Byte_T -> 3
      [] OTHER -> 4

\* the `match base` of the pack kernels: the 2-bit code, 4 for the
\* `invalid =>` arm
BaseBits(base) ==
    CASE base = Byte_A \/ base = Byte_a -> 0
      [] base = Byte_C \/ base = Byte_c -> 1
      [] base = Byte_G \/ base = Byte_g -> 2
      [] base = Byte_T \/ base = Byte_t -> 3
      [] OTHER -> 4

IsValidBase(b) == BaseBits(b) < 4

\* u8::to_ascii_uppercase on the eight letters
Upper(b) ==
    CASE b = Byte_a -> Byte_A
      [] b = Byte_c -> Byte_C
      [] b = Byte_g -> Byte_G
      [] b = Byte_t -> Byte_T
      [] OTHER -> b

Uppercase(s) == [i \in 1 .. Len(s) |-> Upper(s[i])]

\* seq[from..] and seq[from..to] of a Rust slice (0-based, to exclusive)
SliceFrom(s, from) == SubSeq(s, from + 1, Len(s))
Slice(s, from, to) == SubSeq(s, from + 1, to)

----------------------------------------------------------------------------
(* Scalar codec: utils/packing/naive.rs, utils/unpacking/naive.rs.         *)

\* a pack kernel's outcome: its Result, the word on Ok, and whether a
\* vector load went past the end of the slice
PackOut(r, w, over) == [res |-> r, val |-> w, oob |-> over]

\* the body of `for (i, &base) in seq.iter().enumerate()`, from index i
RECURSIVE naive_as_2bit_loop(_, _, _)
naive_as_2bit_loop(s, i, acc) ==
    IF i >= Len(s) THEN PackOut(Ok, acc, FALSE)
    ELSE LET base == s[i + 1]
             bits == BaseBits(base)
         IN IF bits = 4
            THEN PackOut(Err("InvalidBase", base), ZeroWord, FALSE)
            ELSE naive_as_2bit_loop(s, i + 1,
                                    BitOr(acc, Shl(FromInt(bits), i * 2)))

\* as_2bit with the length check off by one: `seq.len() > 33`
naive_as_2bit_limit_33(s) ==
    IF Len(s) > BasesPerWord + 1
    THEN PackOut(Err("SequenceTooLong", Len(s)), ZeroWord, FALSE)
    ELSE naive_as_2bit_loop(s, 0, ZeroWord)

naive_as_2bit(s) ==
    IF Len(s) > BasesPerWord
    THEN PackOut(Err("SequenceTooLong", Len(s)), ZeroWord, FALSE)
    ELSE naive_as_2bit_loop(s, 0, ZeroWord)

\* the `match bits` of the unpack kernels
BaseOfBits(bits) ==
    CASE bits = 0 -> Byte_A
      [] bits = 1 -> Byte_C
      [] bits = 2 -> Byte_G
      [] bits = 3 -> Byte_T

\* (packed >> (i * 2)) & 0b11: bits 2i and 2i + 1 of the word, as a number
Field(w, i) ==
    (IF i * 2 \in w THEN 1 ELSE 0) + (IF i * 2 + 1 \in w THEN 2 ELSE 0)

\* an unpack kernel's outcome: its Result and the output buffer afterwards
UnpackOut(r, out) == [res |-> r, out |-> out]

\* naive_from_2bit with the shift `packed >> i` in place of `packed >> (i * 2)`
naive_from_2bit_shift_by_i(w, expected_size, sequence) ==
    IF expected_size > BasesPerWord
    THEN UnpackOut(Err("InvalidLength", expected_size), sequence)
    ELSE UnpackOut(Ok,
           sequence \o [i \in 1 .. expected_size |->
              BaseOfBits((IF i - 1 \in w THEN 1 ELSE 0) + (IF i \in w THEN 2 ELSE 0))])

\* naive_from_2bit taking the bases from the top of the word: base i read
\* at field i + (32 - expected_size)
naive_from_2bit_right_aligned(w, expected_size, sequence) ==
    IF expected_size > BasesPerWord
    THEN UnpackOut(Err("InvalidLength", expected_size), sequence)
    ELSE UnpackOut(Ok,
           sequence \o [i \in 1 .. expected_size |->
              BaseOfBits(Field(w, i - 1 + (BasesPerWord - expected_size)))])

naive_from_2bit(w, expected_size, sequence) ==
    IF expected_size > BasesPerWord
    THEN UnpackOut(Err("InvalidLength", expected_size), sequence)
    ELSE UnpackOut(Ok,
           sequence \o [i \in 1 .. expected_size |-> BaseOfBits(Field(w, i - 1))])

----------------------------------------------------------------------------
(* Vector pack kernels: utils/packing/{avx,sse,aarch64}.rs.                *)
(* A vector register is the sequence of its byte lanes.  A load of `width` *)
(* bytes at offset `at` of a slice shorter than at + width reads past the  *)
(* slice: those lanes hold whatever follows it in memory (the byte g).     *)

VectorLoad(s, at, width, g) ==
    [j \in 1 .. width |-> IF at + j <= Len(s) THEN s[at + j] ELSE g]

LoadIsPastEnd(s, at, width) == at + width > Len(s)

\* cmpeq(chunk, upper) | cmpeq(chunk, lower), lane by lane
create_dual_pattern_mask(chunk, upper, lower) ==
    [j \in 1 .. Len(chunk) |-> chunk[j] = upper \/ chunk[j] = lower]

\* (mask & constant) | (!mask & result), three times over, lane by lane
set_bits(c_mask, g_mask, t_mask) ==
    [j \in 1 .. Len(c_mask) |->
        LET r0 == 0
            r1 == IF c_mask[j] THEN 1 ELSE r0
            r2 == IF g_mask[j] THEN 2 ELSE r1
            r3 == IF t_mask[j] THEN 3 ELSE r2
        IN r3]

process_simd_chunk(chunk) ==
    set_bits(create_dual_pattern_mask(chunk, Byte_C, Byte_c),
             create_dual_pattern_mask(chunk, Byte_G, Byte_g),
             create_dual_pattern_mask(chunk, Byte_T, Byte_t))

\* pack_lanes with the shift `i * 2` in place of `(chunk_idx + i) * 2`
RECURSIVE pack_lanes_no_offset(_, _, _, _, _)
pack_lanes_no_offset(temp, chunk_idx, i, n, acc) ==
    IF i >= n THEN acc
    ELSE pack_lanes_no_offset(temp, chunk_idx, i + 1, n,
                              BitOr(acc, Shl(FromInt(temp[i + 1]), i * 2)))

\* pack_lanes without the `take(n)`: every lane of the register is packed
RECURSIVE pack_lanes_all(_, _, _, _, _)
pack_lanes_all(temp, chunk_idx, i, n, acc) ==
    IF i >= Len(temp) THEN acc
    ELSE pack_lanes_all(temp, chunk_idx, i + 1, n,
                        BitOr(acc, Shl(FromInt(temp[i + 1]), (chunk_idx + i) * 2)))

\* for (i, &val) in temp.iter().take(n).enumerate():
\*     packed |= (val as u64) << ((chunk_idx + i) * 2)
RECURSIVE pack_lanes(_, _, _, _, _)
pack_lanes(temp, chunk_idx, i, n, acc) ==
    IF i >= n THEN acc
    ELSE pack_lanes(temp, chunk_idx, i + 1, n,
                    BitOr(acc, Shl(FromInt(temp[i + 1]), (chunk_idx + i) * 2)))

\* for chunk_idx in (0..simd_len).step_by(step): load, process, pack
RECURSIVE as_2bit_chunks(_, _, _, _, _, _, _)
as_2bit_chunks(s, g, chunk_idx, simd_len, step, width, acc) ==
    IF chunk_idx >= simd_len THEN acc
    ELSE LET chunk == VectorLoad(s, chunk_idx, width, g)
             temp == process_simd_chunk(chunk)
         IN as_2bit_chunks(s, g, chunk_idx + step, simd_len, step, width,
               [val |-> pack_lanes(temp, chunk_idx, 0, step, acc.val),
                oob |-> acc.oob \/ LoadIsPastEnd(s, chunk_idx, width)])

\* for (i, &base) in seq.iter().skip(simd_len).enumerate(), with the
\* `_ => unreachable!()` arm
RECURSIVE as_2bit_remainder(_, _, _, _)
as_2bit_remainder(s, simd_len, i, acc) ==
    IF simd_len + i >= Len(s) THEN PackOut(Ok, acc.val, acc.oob)
    ELSE LET bits == BaseBits(s[simd_len + i + 1])
         IN IF bits = 4 THEN PackOut(Panic("unreachable"), ZeroWord, acc.oob)
            ELSE as_2bit_remainder(s, simd_len, i + 1,
                   [val |-> BitOr(acc.val, Shl(FromInt(bits), (simd_len + i) * 2)),
                    oob |-> acc.oob])

\* find_invalid searching from the back: the last byte out of the alphabet
find_invalid_last(s) ==
    IF \E i \in 1 .. Len(s) : ~IsValidBase(s[i])
    THEN CHOOSE i \in 1 .. Len(s) :
            ~IsValidBase(s[i]) /\ \A j \in (i + 1) .. Len(s) : IsValidBase(s[j])
    ELSE 0

\* seq.iter().find(|b| !matches!(b, A|a|C|c|G|g|T|t)): the index (1-based)
\* of the first byte out of the alphabet, 0 when there is none
find_invalid(s) ==
    IF \E i \in 1 .. Len(s) : ~IsValidBase(s[i])
    THEN CHOOSE i \in 1 .. Len(s) :
            ~IsValidBase(s[i]) /\ \A j \in 1 .. (i - 1) : IsValidBase(s[j])
    ELSE 0

\* the common shape of the three vector as_2bit: `step` bases are packed
\* from each load of `width` bytes
simd_as_2bit(s, g, step, width) ==
    IF Len(s) > BasesPerWord
    THEN PackOut(Err("SequenceTooLong", Len(s)), ZeroWord, FALSE)
    ELSE IF Len(s) < step THEN naive_as_2bit(s)
    ELSE IF find_invalid(s) # 0
    THEN PackOut(Err("InvalidBase", s[find_invalid(s)]), ZeroWord, FALSE)
    ELSE LET len == Len(s)
             simd_len == len - (len % step)
         IN as_2bit_remainder(s, simd_len, 0,
               as_2bit_chunks(s, g, 0, simd_len, step, width,
                           [val |-> ZeroWord, oob |-> FALSE]))

\* _mm256_loadu_si256: 32 bytes; 16 of them are used
avx_as_2bit(s, g) == simd_as_2bit(s, g, 16, 32)
\* _mm_loadu_si128: 16 bytes; 8 of them are used
sse_as_2bit(s, g) == simd_as_2bit(s, g, 8, 16)
\* vld1_u8: 8 bytes, all used
neon_as_2bit(s, g) == simd_as_2bit(s, g, 8, 8)

\* the build and CPU the library runs on decide every dispatch
Platforms == {"scalar", "sse2", "avx2", "neon"}

\* utils/packing/mod.rs as_2bit
as_2bit(plat, s, g) ==
    CASE plat = "neon" -> neon_as_2bit(s, g)
      [] plat = "avx2" -> avx_as_2bit(s, g)
      [] plat = "sse2" -> sse_as_2bit(s, g)
      [] OTHER -> naive_as_2bit(s)

----------------------------------------------------------------------------
(* Vector unpack kernels: utils/unpacking/{avx,aarch64}.rs.                *)

\* the lookup register b"ACGTACGT...": shuffle(lookup, index_vec) picks
\* lookup[index] in every lane
LookupTable == <<Byte_A, Byte_C, Byte_G, Byte_T>>

\* unpack_8_bases, unpack_16_bases, unpack_32_bases: `lanes` indices
\* (packed >> (i * 2)) & 0b11 are written, then translated by the shuffle
unpack_bases(w, lanes) ==
    [i \in 1 .. lanes |-> LookupTable[Field(w, i - 1) + 1]]

\* process_remainder: bases start..end of the word, by the scalar table
process_remainder(w, start, end, sequence) ==
    sequence \o [i \in 1 .. (end - start) |->
                    LookupTable[Field(w, start + i - 1) + 1]]

\* `for chunk in 0..simd_chunks`: chunk_data = packed >> (chunk * 2 * lanes),
\* `take` of the `lanes` unpacked bytes are appended
RECURSIVE unpack_chunks(_, _, _, _, _, _)
unpack_chunks(w, chunk, simd_chunks, lanes, take, sequence) ==
    IF chunk >= simd_chunks THEN sequence
    ELSE unpack_chunks(w, chunk + 1, simd_chunks, lanes, take,
            sequence \o SubSeq(unpack_bases(Shr(w, chunk * 2 * take), lanes),
                               1, take))

avx_from_2bit_simd(w, expected_size, sequence) ==
    IF expected_size > BasesPerWord
    THEN UnpackOut(Err("InvalidLength", expected_size), sequence)
    ELSE IF expected_size >= 32
    THEN UnpackOut(Ok, sequence \o SubSeq(unpack_bases(w, 32), 1, expected_size))
    ELSE IF expected_size >= 16
    THEN LET simd_chunks == expected_size \div 16
         IN UnpackOut(Ok,
               process_remainder(w, simd_chunks * 16, expected_size,
                  unpack_chunks(w, 0, simd_chunks, 16, 16, sequence)))
    ELSE IF expected_size >= 8
    THEN LET simd_chunks == expected_size \div 8
         IN UnpackOut(Ok,
               process_remainder(w, simd_chunks * 8, expected_size,
                  unpack_chunks(w, 0, simd_chunks, 16, 8, sequence)))
    ELSE UnpackOut(Ok, process_remainder(w, 0, expected_size, sequence))

neon_from_2bit_simd(w, expected_size, sequence) ==
    IF expected_size > BasesPerWord
    THEN UnpackOut(Err("InvalidLength", expected_size), sequence)
    ELSE LET simd_chunks == expected_size \div 8
             remaining_start == simd_chunks * 8
             done == unpack_chunks(w, 0, simd_chunks, 8, 8, sequence)
         IN UnpackOut(Ok,
               IF remaining_start < expected_size
               THEN process_remainder(w, remaining_start, expected_size, done)
               ELSE done)

\* utils/unpacking/mod.rs from_2bit
from_2bit(plat, w, expected_size, sequence) ==
    CASE plat = "neon" -> neon_from_2bit_simd(w, expected_size, sequence)
      [] plat = "avx2" -> avx_from_2bit_simd(w, expected_size, sequence)
      [] OTHER -> naive_from_2bit(w, expected_size, sequence)

----------------------------------------------------------------------------
(* Stream codec: utils/mod.rs encode and decode, and the three             *)
(* from_2bit_multi paths of utils/unpacking.                               *)

Min(a, b) == IF a < b THEN a ELSE b

\* a stream operation's outcome: its Result and the buffer afterwards
StreamOut(r, buf) == [res |-> r, buf |-> buf]

\* `for _ in 0..n_chunks - 1`: iteration k packs sequence[l_bounds..l_bounds+32]
RECURSIVE encode_loop(_, _, _, _, _, _, _)
encode_loop(plat, sequence, g, k, n_chunks, l_bounds, buf) ==
    IF k >= n_chunks - 1
    THEN LET bits == as_2bit(plat, SliceFrom(sequence, l_bounds), g)
         IN IF bits.res.tag = "Ok"
            THEN StreamOut(Ok, Append(buf, bits.val))
            ELSE StreamOut(bits.res, buf)
    ELSE LET r_bounds == l_bounds + 32
             bits == as_2bit(plat, Slice(sequence, l_bounds, r_bounds), g)
         IN IF bits.res.tag = "Ok"
            THEN encode_loop(plat, sequence, g, k + 1, n_chunks, r_bounds,
                             Append(buf, bits.val))
            ELSE StreamOut(bits.res, buf)

\* encode without `ebuf.clear()`
encode_no_clear(plat, checks, sequence, g, held) ==
    LET n_chunks == DivCeil(Len(sequence), 32)
    IN IF n_chunks = 0
       THEN StreamOut(Panic("attempt to subtract with overflow"), held)
       ELSE encode_loop(plat, sequence, g, 0, n_chunks, 0, held)

\* utils/mod.rs encode.  The buffer is cleared first, whatever it held.
\* With an empty sequence n_chunks is 0 and `n_chunks - 1` underflows: a
\* build with overflow checks panics there; one without them wraps to
\* usize::MAX, enters the loop and panics on sequence[0..32].
encode(plat, checks, sequence, g, held) ==
    LET cleared == SubSeq(held, 1, 0)
        n_chunks == DivCeil(Len(sequence), 32)
    IN IF n_chunks = 0
       THEN IF checks
            THEN StreamOut(Panic("attempt to subtract with overflow"), cleared)
            ELSE StreamOut(Panic("range end index out of range"), cleared)
       ELSE encode_loop(plat, sequence, g, 0, n_chunks, 0, cleared)

\* `b | 0x20` on a byte
OrCase(b) == IF (b \div 32) % 2 = 0 THEN b + 32 ELSE b

\* aarch64 valid_block: every lane, with bit 0x20 set, is one of a, c, g, t
valid_block(v) ==
    \A k \in 1 .. Len(v) : OrCase(v[k]) \in {Byte_a, Byte_c, Byte_g, Byte_t}

\* aarch64 encode_16_nucleotides: code = ((b >> 1) ^ (b >> 2)) & 3 in every
\* lane, lane k at bits 2k and 2k + 1 of the result
encode_16_nucleotides(nucs) ==
    LET code(b) == ((((b \div 2) % 2) + ((b \div 4) % 2)) % 2)
                   + 2 * ((((b \div 4) % 2) + ((b \div 8) % 2)) % 2)
    IN UNION {Shl(FromInt(code(nucs[k + 1])), 2 * k) : k \in 0 .. (Len(nucs) - 1)}

\* the scalar tail of encode_nucleotides_simd: `match *ip.add(i) | 0x20`
RECURSIVE simd_tail_loop(_, _, _, _)
simd_tail_loop(input, at, i, tail) ==
    IF at + i >= Len(input) THEN PackOut(Ok, tail, FALSE)
    ELSE LET b == input[at + i + 1]
             bits == CASE OrCase(b) = Byte_a -> 0
                       [] OrCase(b) = Byte_c -> 1
                       [] OrCase(b) = Byte_g -> 2
                       [] OrCase(b) = Byte_t -> 3
                       [] OTHER -> 4
         IN IF bits = 4 THEN PackOut(Err("InvalidBase", b), ZeroWord, FALSE)
            ELSE simd_tail_loop(input, at, i + 1,
                                BitOr(tail, Shl(FromInt(bits), 2 * i)))

\* `while left >= 32`: two 16-byte loads at ip, one word written at out;
\* an invalid block returns InvalidBase(*ip), the byte at the start of it
RECURSIVE simd_block_loop(_, _, _)
simd_block_loop(input, at, output) ==
    IF Len(input) - at >= 32
    THEN LET v0 == Slice(input, at, at + 16)
             v1 == Slice(input, at + 16, at + 32)
         IN IF ~valid_block(v0) \/ ~valid_block(v1)
            THEN StreamOut(Err("InvalidBase", input[at + 1]), output)
            ELSE simd_block_loop(input, at + 32,
                    [output EXCEPT ![(at \div 32) + 1] =
                        BitOr(encode_16_nucleotides(v0),
                              Shl(encode_16_nucleotides(v1), 32))])
    ELSE IF Len(input) - at # 0
    THEN LET tail == simd_tail_loop(input, at, 0, ZeroWord)
         IN IF tail.res.tag = "Ok"
            THEN StreamOut(Ok, [output EXCEPT ![(at \div 32) + 1] = tail.val])
            ELSE StreamOut(tail.res, output)
    ELSE StreamOut(Ok, output)

\* aarch64 encode_nucleotides_simd on an input of 32 bytes or more (the only
\* ones encode_internal passes): output.fill(0), then the loops
encode_nucleotides_simd(input, output) ==
    simd_block_loop(input, 0, [k \in 1 .. Len(output) |-> ZeroWord])

\* aarch64 encode_internal: a short sequence is packed and pushed; a longer
\* one resizes the buffer to n_chunks words and runs the vector encoder.
\* The buffer is not cleared.
aarch64_encode_internal(sequence, g, held) ==
    IF Len(sequence) < 32
    THEN LET bits == neon_as_2bit(sequence, g)
         IN IF bits.res.tag = "Ok"
            THEN StreamOut(Ok, Append(held, bits.val))
            ELSE StreamOut(bits.res, held)
    ELSE LET n_chunks == DivCeil(Len(sequence), 32)
             resized == [k \in 1 .. n_chunks |->
                            IF k <= Len(held) THEN held[k] ELSE ZeroWord]
         IN encode_nucleotides_simd(sequence, resized)

\* utils/packing/mod.rs encode_internal: the NEON encoder on aarch64; on
\* x86_64 the loop of encode over the AVX2 or the scalar as_2bit
encode_internal(plat, checks, sequence, g, held) ==
    IF plat = "neon" THEN aarch64_encode_internal(sequence, g, held)
    ELSE encode(plat, checks, sequence, g, held)

\* ebuf.iter().take(count).try_for_each(|c| from_2bit(*c, 32, dbuf))
RECURSIVE take_from_2bit(_, _, _, _, _)
take_from_2bit(plat, words, k, count, out) ==
    IF k >= count \/ k >= Len(words) THEN out
    ELSE take_from_2bit(plat, words, k + 1, count,
                        from_2bit(plat, words[k + 1], 32, out).out)

\* the scalar body of from_2bit_multi.  With n_bases = 0, n_chunks is 0 and
\* `n_chunks - 1` underflows: a build with overflow checks panics; one
\* without them takes usize::MAX words (all of them) and then finds no
\* word at index usize::MAX.
scalar_from_2bit_multi(plat, checks, words, n_bases, out) ==
    LET n_chunks == DivCeil(n_bases, 32)
        rem == IF n_bases % 32 = 0 THEN 32 ELSE n_bases % 32
    IN IF n_chunks = 0
       THEN IF checks
            THEN StreamOut(Panic("attempt to subtract with overflow"), out)
            ELSE StreamOut(Err("InvalidLength", n_bases),
                           take_from_2bit(plat, words, 0, Len(words), out))
       ELSE LET full == take_from_2bit(plat, words, 0, n_chunks - 1, out)
            IN IF n_chunks - 1 >= Len(words)
               THEN StreamOut(Err("InvalidLength", n_bases), full)
               ELSE LET last == from_2bit(plat, words[n_chunks], rem, full)
                    IN StreamOut(last.res, last.out)

\* for &chunk in ebuf.iter().take(full_chunks): 32 bases each
RECURSIVE avx_full_chunks(_, _, _, _)
avx_full_chunks(words, k, full_chunks, out) ==
    IF k >= full_chunks \/ k >= Len(words) THEN out
    ELSE avx_full_chunks(words, k + 1, full_chunks,
                         out \o unpack_bases(words[k + 1], 32))

avx_from_2bit_multi_simd(words, n_bases, out) ==
    LET full_chunks == n_bases \div 32
        remaining_bases == n_bases % 32
        full == avx_full_chunks(words, 0, full_chunks, out)
    IN IF remaining_bases > 0
       THEN IF full_chunks >= Len(words)
            THEN StreamOut(Panic("index out of bounds"), full)
            ELSE StreamOut(Ok,
                   full \o SubSeq(unpack_bases(words[full_chunks + 1], 32),
                                  1, remaining_bases))
       ELSE StreamOut(Ok, full)

\* for chunk in ebuf.iter().take(full_chunks): four 8-base segments each
RECURSIVE neon_full_chunks(_, _, _, _)
neon_full_chunks(words, k, full_chunks, out) ==
    IF k >= full_chunks \/ k >= Len(words) THEN out
    ELSE neon_full_chunks(words, k + 1, full_chunks,
                          unpack_chunks(words[k + 1], 0, 4, 8, 8, out))

neon_from_2bit_multi_simd(words, n_bases, out) ==
    LET full_chunks == n_bases \div 32
        remaining_bases == n_bases % 32
        full == neon_full_chunks(words, 0, full_chunks, out)
    IN IF remaining_bases > 0
       THEN IF full_chunks >= Len(words)
            THEN StreamOut(Panic("index out of bounds"), full)
            ELSE LET last_chunk == words[full_chunks + 1]
                     remaining_segments == remaining_bases \div 8
                     final_remaining == remaining_bases % 8
                     segs == unpack_chunks(last_chunk, 0, remaining_segments,
                                           8, 8, full)
                 IN StreamOut(Ok,
                       IF final_remaining > 0
                       THEN process_remainder(last_chunk, remaining_segments * 8,
                                              remaining_bases, segs)
                       ELSE segs)
       ELSE StreamOut(Ok, full)

\* utils/unpacking/mod.rs from_2bit_multi
from_2bit_multi(plat, checks, words, n_bases, out) ==
    CASE plat = "neon" -> neon_from_2bit_multi_simd(words, n_bases, out)
      [] plat = "avx2" -> avx_from_2bit_multi_simd(words, n_bases, out)
      [] OTHER -> scalar_from_2bit_multi(plat, checks, words, n_bases, out)

\* utils/mod.rs decode
decode(plat, checks, words, n_bases, out) ==
    from_2bit_multi(plat, checks, words, n_bases, out)

----------------------------------------------------------------------------
(* Packed split: utils/functions/split.rs.                                 *)

SplitOut(r, l, rt) == [res |-> r, lbuf |-> l, rbuf |-> rt]

\* for curr in ebuf.iter().skip(chunk_idx): push carry | (curr >> right_shift),
\* then carry = curr << (64 - right_shift), or 0 when right_shift is 0
RECURSIVE split_right_loop(_, _, _, _, _)
split_right_loop(words, k, right_shift, carry, rt) ==
    IF k >= Len(words) THEN [rbuf |-> rt, carry |-> carry]
    ELSE LET curr == words[k + 1]
             shifted == BitOr(carry, Shr(curr, right_shift))
         IN split_right_loop(words, k + 1, right_shift,
               IF right_shift = 0 THEN ZeroWord
               ELSE Shl(curr, WordBits - right_shift),
               Append(rt, shifted))

\* the general case pushing no zero word onto left when idx is a multiple
\* of 32: left then has idx / 32 words
split_general_no_zero_tail(words, slen, idx) ==
    LET chunk_idx == idx \div 32
        bit_idx == (idx % 32) * 2
        left_full == IF chunk_idx > 0 /\ chunk_idx <= Len(words)
                     THEN SubSeq(words, 1, chunk_idx)
                     ELSE <<>>
        right == split_right_loop(words, chunk_idx, bit_idx, ZeroWord, <<>>)
    IN IF chunk_idx >= Len(words)
       THEN SplitOut(Panic("index out of bounds"), left_full, <<>>)
       ELSE SplitOut(Ok,
              IF bit_idx = 0 THEN left_full
              ELSE Append(left_full,
                          BitAnd(words[chunk_idx + 1], Dec(Shl(FromInt(1), bit_idx)))),
              IF right.carry # ZeroWord
                 /\ Len(right.rbuf) < ((slen - idx) + 31) \div 32
              THEN Append(right.rbuf, right.carry)
              ELSE right.rbuf)

\* the general case, entered with both outputs cleared: 0 < idx < slen and
\* words not empty
split_general(words, slen, idx) ==
    LET right_chunks == ((slen - idx) + 31) \div 32
        chunk_idx == idx \div 32
        bit_idx == (idx % 32) * 2
        left_full == IF chunk_idx > 0 /\ chunk_idx <= Len(words)
                     THEN SubSeq(words, 1, chunk_idx)
                     ELSE <<>>
        split_mask == IF bit_idx = 0 THEN ZeroWord
                      ELSE Dec(Shl(FromInt(1), bit_idx))
    IN IF chunk_idx >= Len(words)
       THEN SplitOut(Panic("index out of bounds"), left_full, <<>>)
       ELSE LET left == Append(left_full,
                               BitAnd(words[chunk_idx + 1], split_mask))
                right == split_right_loop(words, chunk_idx, bit_idx,
                                          ZeroWord, <<>>)
            IN SplitOut(Ok, left,
                  IF right.carry # ZeroWord /\ Len(right.rbuf) < right_chunks
                  THEN Append(right.rbuf, right.carry)
                  ELSE right.rbuf)

\* split_packed clearing the two buffers before it validates the index
split_packed_clears_first(words, slen, idx, lheld, rheld) ==
    IF idx > slen
    THEN SplitOut(Err2("IndexOutOfBounds", idx, slen), <<>>, <<>>)
    ELSE IF idx = 0 THEN SplitOut(Ok, <<>>, words)
    ELSE IF idx = slen THEN SplitOut(Ok, words, <<>>)
    ELSE IF words = <<>> THEN SplitOut(Ok, <<>>, <<>>)
    ELSE split_general(words, slen, idx)

\* split_packed rejecting the index one early: `idx >= slen`
split_packed_index_exclusive(words, slen, idx, lheld, rheld) ==
    IF idx >= slen
    THEN SplitOut(Err2("IndexOutOfBounds", idx, slen), lheld, rheld)
    ELSE IF idx = 0 THEN SplitOut(Ok, <<>>, words)
    ELSE IF words = <<>> THEN SplitOut(Ok, <<>>, <<>>)
    ELSE split_general(words, slen, idx)

\* split_packed without `lbuf.clear(); rbuf.clear()`
split_packed_no_clear(words, slen, idx, lheld, rheld) ==
    IF idx > slen
    THEN SplitOut(Err2("IndexOutOfBounds", idx, slen), lheld, rheld)
    ELSE IF idx = 0 THEN SplitOut(Ok, lheld, rheld \o words)
    ELSE IF idx = slen THEN SplitOut(Ok, lheld \o words, rheld)
    ELSE IF words = <<>> THEN SplitOut(Ok, lheld, rheld)
    ELSE LET r == split_general(words, slen, idx)
         IN SplitOut(r.res, lheld \o r.lbuf, rheld \o r.rbuf)

\* split_packed without the early returns for idx = 0 and idx = slen
split_packed_no_edge_cases(words, slen, idx, lheld, rheld) ==
    IF idx > slen
    THEN SplitOut(Err2("IndexOutOfBounds", idx, slen), lheld, rheld)
    ELSE IF words = <<>> THEN SplitOut(Ok, <<>>, <<>>)
    ELSE split_general(words, slen, idx)

split_packed(words, slen, idx, lheld, rheld) ==
    IF idx > slen
    THEN SplitOut(Err2("IndexOutOfBounds", idx, slen), lheld, rheld)
    ELSE IF idx = 0 THEN SplitOut(Ok, <<>>, words)
    ELSE IF idx = slen THEN SplitOut(Ok, words, <<>>)
    ELSE IF words = <<>> THEN SplitOut(Ok, <<>>, <<>>)
    ELSE split_general(words, slen, idx)

----------------------------------------------------------------------------
(* Hamming distance: utils/functions/hamming/{scalar,multi}.rs.            *)

\* 0x5555555555555555 and 0xAAAAAAAAAAAAAAAA
LOWER_BITS == {b \in AllOnes : b % 2 = 0}
UPPER_BITS == {b \in AllOnes : b % 2 = 1}

\* an integer result: the Result and, on Ok, the u32
CountOut(r, d) == [res |-> r, val |-> d]

\* hdist_scalar counting the differing bits, not the differing bases:
\* `diff.count_ones()`
hdist_scalar_counts_bits(u, v, len) ==
    IF len > 32 THEN CountOut(Err("InvalidLength", len), 0)
    ELSE CountOut(Ok, CountOnes({b \in BitXor(u, v) : b < 2 * len}))

\* hdist_scalar with `u & !v` in place of `u ^ v`
hdist_scalar_and_not(u, v, len) ==
    IF len > 32 THEN CountOut(Err("InvalidLength", len), 0)
    ELSE CountOut(Ok, Cardinality({i \in 0 .. (len - 1) :
                         (2 * i \in u \ v) \/ (2 * i + 1 \in u \ v)}))

\* hdist_scalar with the length check off by one: `len >= 32`
hdist_scalar_rejects_32(u, v, len) ==
    IF len >= 32 THEN CountOut(Err("InvalidLength", len), 0)
    ELSE CountOut(Ok, Cardinality({i \in 0 .. (len - 1) :
                         (2 * i \in BitXor(u, v)) \/ (2 * i + 1 \in BitXor(u, v))}))

hdist_scalar(u, v, len) ==
    IF len > 32 THEN CountOut(Err("InvalidLength", len), 0)
    ELSE IF len = 0 \/ u = v THEN CountOut(Ok, 0)
    ELSE LET valid_bits == len * 2
             mask == IF valid_bits = 64 THEN AllOnes
                     ELSE Dec(Shl(FromInt(1), valid_bits))
             diff == BitAnd(BitXor(u, v), mask)
         IN IF diff = ZeroWord THEN CountOut(Ok, 0)
            ELSE LET lower_diffs == BitAnd(BitAnd(diff, LOWER_BITS), mask)
                     upper_diffs == Shr(BitAnd(BitAnd(diff, UPPER_BITS), mask), 1)
                     combined_diffs == BitOr(lower_diffs, upper_diffs)
                 IN CountOut(Ok, CountOnes(combined_diffs))

\* count_ones of one 64-bit lane of `combined` for the words u, v
lane_count(u, v) ==
    LET diff == BitXor(u, v)
        lower_diffs == BitAnd(diff, LOWER_BITS)
        upper_diffs == Shr(BitAnd(diff, UPPER_BITS), 1)
    IN CountOnes(BitOr(lower_diffs, upper_diffs))

\* for i in 0..groups: `lanes` words of each buffer are loaded at i * lanes;
\* a group whose xor is all zero is skipped
RECURSIVE hdist_vector_loop(_, _, _, _, _, _)
hdist_vector_loop(e1, e2, i, groups, lanes, total) ==
    IF i >= groups THEN total
    ELSE LET at == i * lanes
             no_diff == \A k \in 1 .. lanes : BitXor(e1[at + k], e2[at + k]) = ZeroWord
             counts == [k \in 1 .. lanes |-> lane_count(e1[at + k], e2[at + k])]
             sum == IF lanes = 4 THEN counts[1] + counts[2] + counts[3] + counts[4]
                    ELSE counts[1] + counts[2]
         IN hdist_vector_loop(e1, e2, i + 1, groups, lanes,
                              IF no_diff THEN total ELSE total + sum)

\* the full words left over after the vector loop, by hdist_scalar(u, v, 32)
RECURSIVE hdist_remaining_loop(_, _, _, _, _)
hdist_remaining_loop(e1, e2, i, full_chunks, total) ==
    IF i >= full_chunks \/ i >= Len(e1) \/ i >= Len(e2) THEN total
    ELSE LET d == hdist_scalar(e1[i + 1], e2[i + 1], 32)
         IN hdist_remaining_loop(e1, e2, i + 1, full_chunks,
               total + (IF d.res.tag = "Ok" THEN d.val ELSE 0))

\* hdist_multi_avx2 without the loop over the remaining full chunks
hdist_multi_avx2_skips_rest(e1, e2, full_chunks) ==
    hdist_vector_loop(e1, e2, 0, full_chunks \div 4, 4, 0)

hdist_multi_avx2(e1, e2, full_chunks) ==
    LET quad_chunks == full_chunks \div 4
    IN hdist_remaining_loop(e1, e2, quad_chunks * 4, full_chunks,
          hdist_vector_loop(e1, e2, 0, quad_chunks, 4, 0))

hdist_multi_neon(e1, e2, full_chunks) ==
    LET dual_chunks == full_chunks \div 2
    IN hdist_remaining_loop(e1, e2, dual_chunks * 2, full_chunks,
          hdist_vector_loop(e1, e2, 0, dual_chunks, 2, 0))

\* for (a, b) in ebuf1.iter().zip(ebuf2.iter()).take(full_chunks):
\*     total_dist += hdist_scalar(*a, *b, 32)?
RECURSIVE hdist_scalar_loop(_, _, _, _, _)
hdist_scalar_loop(e1, e2, i, full_chunks, total) ==
    IF i >= full_chunks \/ i >= Len(e1) \/ i >= Len(e2) THEN CountOut(Ok, total)
    ELSE LET d == hdist_scalar(e1[i + 1], e2[i + 1], 32)
         IN IF d.res.tag = "Ok"
            THEN hdist_scalar_loop(e1, e2, i + 1, full_chunks, total + d.val)
            ELSE d

hdist(plat, e1, e2, n_bases) ==
    LET expected_chunks == DivCeil(n_bases, 32)
        full_chunks == n_bases \div 32
        remaining_bases == n_bases % 32
    IN IF Len(e1) < expected_chunks \/ Len(e2) < expected_chunks
       THEN CountOut(Err("InvalidLength", n_bases), 0)
       ELSE LET simd == IF plat = "neon" /\ full_chunks >= 2
                        THEN hdist_multi_neon(e1, e2, full_chunks)
                        ELSE IF plat = "avx2" /\ full_chunks >= 4
                        THEN hdist_multi_avx2(e1, e2, full_chunks)
                        ELSE 0
                full == IF simd = 0 /\ full_chunks > 0
                        THEN hdist_scalar_loop(e1, e2, 0, full_chunks, simd)
                        ELSE CountOut(Ok, simd)
            IN IF full.res.tag # "Ok" THEN full
               ELSE IF remaining_bases > 0
               THEN LET d == hdist_scalar(e1[full_chunks + 1], e2[full_chunks + 1],
                                          remaining_bases)
                    IN IF d.res.tag = "Ok" THEN CountOut(Ok, full.val + d.val)
                       ELSE d
               ELSE full

----------------------------------------------------------------------------
(* Inputs.                                                                 *)

Alphabet == <<Byte_A, Byte_C, Byte_G, Byte_T, Byte_a, Byte_c, Byte_g, Byte_t>>

\* letter i (0-based) of pattern pat: every pattern mixes the eight letters
PatternByte(pat, i) == Alphabet[((i * (2 * pat + 1) + pat) % 8) + 1]

GenSeq(len, pat) == [i \in 1 .. len |-> PatternByte(pat, i - 1)]

ValidInputs(maxlen) ==
    {GenSeq(len, pat) : len \in 0 .. maxlen, pat \in 0 .. (NumPatterns - 1)}

\* one byte out of the alphabet at position p, and possibly a different
\* one at the last position
OneBad(maxlen) ==
    UNION {{[GenSeq(len, 0) EXCEPT ![p] = Byte_N] : p \in 1 .. len}
             : len \in 1 .. maxlen}

TwoBad(maxlen) ==
    UNION {{[GenSeq(len, 0) EXCEPT ![p] = Byte_N, ![len] = Byte_n]
                : p \in 1 .. (len - 1)} : len \in 2 .. maxlen}

WordInputs == ValidInputs(MaxWordLen) \cup OneBad(MaxWordLen) \cup TwoBad(MaxWordLen)

\* what a vector load past the end of a slice may find there
GarbageBytes == {0, Byte_T}

AllValid(s) == \A i \in 1 .. Len(s) : IsValidBase(s[i])

----------------------------------------------------------------------------
(* Single-word operations: the caller packs seq, then unpacks the word.    *)

InitWord ==
    /\ platform \in Platforms
    /\ overflow_checks \in BOOLEAN
    /\ seq \in WordInputs
    /\ packed = ZeroWord
    /\ ebuf = <<>>
    /\ dbuf = <<>>
    /\ n_in = 0
    /\ res = NoResult
    /\ oob = FALSE
    /\ calls = 0
    /\ seq2 = <<>>
    /\ ebuf2 = <<>>
    /\ lbuf = <<>>
    /\ rbuf = <<>>
    /\ idx_in = 0
    /\ dist = 0
    /\ pc = "start"

\* as_2bit(seq)
Pack ==
    /\ pc = "start"
    /\ \E g \in GarbageBytes :
          LET r == as_2bit(platform, seq, g)
          IN /\ packed' = r.val
             /\ res' = r.res
             /\ oob' = r.oob
    /\ pc' = "packed"
    /\ calls' = calls + 1
    /\ UNCHANGED <<build, split_vars, hdist_vars, seq, ebuf, dbuf, n_in>>

\* the base counts a caller asks of from_2bit: all of seq, a prefix, too many
UnpackCounts == {Len(seq), Len(seq) \div 2, BasesPerWord + 1}

\* from_2bit(packed, n, dbuf)
Unpack ==
    /\ pc = "packed"
    /\ res.tag = "Ok"
    /\ \E n \in UnpackCounts :
          LET r == from_2bit(platform, packed, n, dbuf)
          IN /\ dbuf' = r.out
             /\ res' = r.res
             /\ n_in' = n
    /\ pc' = "unpacked"
    /\ calls' = calls + 1
    /\ UNCHANGED <<build, split_vars, hdist_vars, seq, packed, ebuf, oob>>

NextWord == Pack \/ Unpack

SpecWord == InitWord /\ [][NextWord]_vars

----------------------------------------------------------------------------
(* The codec: the caller packs and unpacks seq as one word, or encodes it  *)
(* into a word buffer that may hold earlier content and decodes that.      *)

\* a byte out of the alphabet at the first, the middle or the last position
StreamBad ==
    UNION {{[GenSeq(len, 1) EXCEPT ![p] = Byte_N]
                : p \in {1, (len + 1) \div 2, len}} : len \in 1 .. MaxStreamLen}

StreamInputs == ValidInputs(MaxStreamLen) \cup StreamBad

\* what the word buffer may hold when the caller hands it over
HeldWords == {<<>>, <<AllOnes, FromInt(228)>>}

Init ==
    /\ platform \in Platforms
    /\ overflow_checks \in BOOLEAN
    /\ seq \in StreamInputs
    /\ packed = ZeroWord
    /\ ebuf \in HeldWords
    /\ dbuf = <<>>
    /\ n_in = 0
    /\ res = NoResult
    /\ oob = FALSE
    /\ calls = 0
    /\ seq2 = <<>>
    /\ ebuf2 = <<>>
    /\ lbuf = <<>>
    /\ rbuf = <<>>
    /\ idx_in = 0
    /\ dist = 0
    /\ pc = "start"

\* encode(seq, ebuf), on a fresh buffer or on the one just encoded into
Encode ==
    /\ pc \in {"start", "encoded"}
    /\ calls < MaxCalls
    /\ \E g \in GarbageBytes :
          LET r == encode(platform, overflow_checks, seq, g, ebuf)
          IN /\ ebuf' = r.buf
             /\ res' = r.res
    /\ pc' = "encoded"
    /\ calls' = calls + 1
    /\ UNCHANGED <<build, split_vars, hdist_vars, seq, packed, dbuf, n_in, oob>>

\* the base counts a caller asks of decode: none, those of seq, a word more
DecodeCounts == {0, Len(seq), Len(seq) + BasesPerWord}

\* decode(ebuf, n, dbuf) of the words encode produced
Decode ==
    /\ pc = "encoded"
    /\ res.tag = "Ok"
    /\ \E n \in DecodeCounts :
          LET r == decode(platform, overflow_checks, ebuf, n, dbuf)
          IN /\ dbuf' = r.buf
             /\ res' = r.res
             /\ n_in' = n
    /\ pc' = "decoded"
    /\ calls' = calls + 1
    /\ UNCHANGED <<build, split_vars, hdist_vars, seq, packed, ebuf, oob>>

\* decode(ebuf, n, dbuf) of the words the caller was handed
DecodeHeld ==
    /\ pc = "start"
    /\ \E n \in DecodeCounts :
          LET r == decode(platform, overflow_checks, ebuf, n, dbuf)
          IN /\ dbuf' = r.buf
             /\ res' = r.res
             /\ n_in' = n
    /\ pc' = "decoded_held"
    /\ calls' = calls + 1
    /\ UNCHANGED <<build, split_vars, hdist_vars, seq, packed, ebuf, oob>>

\* encode(dbuf, ebuf2) of the bases decode just produced
ReEncode ==
    /\ pc \in {"decoded", "decoded_held"}
    /\ res.tag = "Ok"
    /\ \E g \in GarbageBytes :
          LET r == encode(platform, overflow_checks, dbuf, g, ebuf2)
          IN /\ ebuf2' = r.buf
             /\ res' = r.res
    /\ pc' = "reencoded"
    /\ calls' = calls + 1
    /\ UNCHANGED <<build, split_vars, seq, seq2, dist, packed, ebuf, dbuf,
                   n_in, oob>>

\* the targets that have a kernel-level stream encoder: packing/sse.rs
\* defines none
InternalPlatforms == Platforms \ {"sse2"}

\* encode_internal(seq, ebuf)
EncodeInternal ==
    /\ pc = "start"
    /\ platform \in InternalPlatforms
    /\ \E g \in GarbageBytes :
          LET r == encode_internal(platform, overflow_checks, seq, g, ebuf)
          IN /\ ebuf' = r.buf
             /\ res' = r.res
    /\ pc' = "encoded_internal"
    /\ calls' = calls + 1
    /\ UNCHANGED <<build, split_vars, hdist_vars, seq, packed, dbuf, n_in, oob>>

Next ==
    \/ Pack \/ Unpack \/ Encode \/ Decode \/ DecodeHeld \/ ReEncode
    \/ EncodeInternal

Spec == Init /\ [][Next]_vars

----------------------------------------------------------------------------
(* Splitting: the caller encodes seq, then splits the stream at an index.  *)

SplitInputs == ValidInputs(MaxSplitLen) \ {<<>>}

InitSplit ==
    /\ platform \in Platforms
    /\ overflow_checks \in BOOLEAN
    /\ seq \in SplitInputs
    /\ packed = ZeroWord
    /\ ebuf = <<>>
    /\ dbuf = <<>>
    /\ n_in = 0
    /\ res = NoResult
    /\ oob = FALSE
    /\ calls = 0
    /\ seq2 = <<>>
    /\ ebuf2 = <<>>
    /\ lbuf \in HeldWords
    /\ rbuf = lbuf
    /\ idx_in = 0
    /\ dist = 0
    /\ pc = "start"

\* encode(seq, ebuf) on a fresh buffer
EncodeFresh ==
    /\ pc = "start"
    /\ Encode

\* split_packed(ebuf, len(seq), idx, lbuf, rbuf), idx up to one past the end
Split ==
    /\ pc = "encoded"
    /\ res.tag = "Ok"
    /\ \E idx \in 0 .. (Len(seq) + 1) :
          LET r == split_packed(ebuf, Len(seq), idx, lbuf, rbuf)
          IN /\ lbuf' = r.lbuf
             /\ rbuf' = r.rbuf
             /\ res' = r.res
             /\ idx_in' = idx
    /\ n_in' = Len(seq)
    /\ pc' = "split"
    /\ calls' = calls + 1
    /\ UNCHANGED <<build, hdist_vars, seq, packed, ebuf, dbuf, oob>>

\* the indexes of a second split into the same two buffers
ReSplitIndexes == {0, Len(seq) \div 2, Len(seq)}

\* split_packed(ebuf, len(seq), idx, lbuf, rbuf) again, lbuf and rbuf being
\* as the call before left them
ReSplit ==
    /\ pc = "split"
    /\ res.tag # "Panic"
    /\ calls <= MaxCalls
    /\ \E idx \in ReSplitIndexes :
          LET r == split_packed(ebuf, Len(seq), idx, lbuf, rbuf)
          IN /\ lbuf' = r.lbuf
             /\ rbuf' = r.rbuf
             /\ res' = r.res
             /\ idx_in' = idx
    /\ n_in' = Len(seq)
    /\ pc' = "split"
    /\ calls' = calls + 1
    /\ UNCHANGED <<build, hdist_vars, seq, packed, ebuf, dbuf, oob>>

\* the base counts claimed for an empty stream
SplitHeldCounts == {0, 1, BasesPerWord + 8}

\* split_packed(&[], n, idx, lbuf, rbuf): no word at all
SplitHeld ==
    /\ pc = "start"
    /\ \E n \in SplitHeldCounts :
          \E idx \in {0, 1, n, n + 1} :
             LET r == split_packed(ebuf, n, idx, lbuf, rbuf)
             IN /\ lbuf' = r.lbuf
                /\ rbuf' = r.rbuf
                /\ res' = r.res
                /\ idx_in' = idx
                /\ n_in' = n
    /\ pc' = "split_held"
    /\ calls' = calls + 1
    /\ UNCHANGED <<build, hdist_vars, seq, packed, ebuf, dbuf, oob>>

NextSplit == EncodeFresh \/ Split \/ ReSplit \/ SplitHeld

SpecSplit == InitSplit /\ [][NextSplit]_vars

----------------------------------------------------------------------------
(* Hamming distance: the caller encodes seq and seq2, then compares them.  *)

OtherBase(b) == IF Upper(b) = Byte_A THEN Byte_T ELSE Byte_A

\* pairs of equal length: two patterns, one pattern in both cases, and one
\* pattern against itself with its first or its last base replaced
HammingPairs ==
    UNION {{<<GenSeq(len, 0), GenSeq(len, 1)>>,
            <<GenSeq(len, 0), Uppercase(GenSeq(len, 0))>>}
           \cup {<<GenSeq(len, 1),
                   [GenSeq(len, 1) EXCEPT ![p] = OtherBase(GenSeq(len, 1)[p])]>>
                    : p \in {1, len} \cap (1 .. len)}
           : len \in 0 .. MaxHammingLen}

InitHamming ==
    /\ platform \in Platforms
    /\ overflow_checks \in BOOLEAN
    /\ \E pair \in HammingPairs : seq = pair[1] /\ seq2 = pair[2]
    /\ packed = ZeroWord
    /\ ebuf = <<>>
    /\ ebuf2 = <<>>
    /\ dbuf = <<>>
    /\ n_in = 0
    /\ res = NoResult
    /\ oob = FALSE
    /\ calls = 0
    /\ lbuf = <<>>
    /\ rbuf = <<>>
    /\ idx_in = 0
    /\ dist = 0
    /\ pc = "start"

\* encode(seq, ebuf)
EncodeA ==
    /\ pc = "start"
    /\ \E g \in GarbageBytes :
          LET r == encode(platform, overflow_checks, seq, g, ebuf)
          IN /\ ebuf' = r.buf
             /\ res' = r.res
    /\ pc' = "encoded_a"
    /\ calls' = calls + 1
    /\ UNCHANGED <<build, split_vars, seq2, ebuf2, dist, seq, packed, dbuf, n_in, oob>>

\* encode(seq2, ebuf2)
EncodeB ==
    /\ pc = "encoded_a"
    /\ res.tag = "Ok"
    /\ \E g \in GarbageBytes :
          LET r == encode(platform, overflow_checks, seq2, g, ebuf2)
          IN /\ ebuf2' = r.buf
             /\ res' = r.res
    /\ pc' = "encoded_b"
    /\ calls' = calls + 1
    /\ UNCHANGED <<build, split_vars, seq2, ebuf, dist, seq, packed, dbuf, n_in, oob>>

\* hdist(ebuf, ebuf2, len(seq))
Hdist ==
    /\ pc = "encoded_b"
    /\ res.tag = "Ok"
    /\ LET r == hdist(platform, ebuf, ebuf2, Len(seq))
       IN /\ dist' = r.val
          /\ res' = r.res
    /\ n_in' = Len(seq)
    /\ pc' = "measured"
    /\ calls' = calls + 1
    /\ UNCHANGED <<build, split_vars, seq, seq2, ebuf, ebuf2, packed, dbuf, oob>>

\* the lengths asked of hdist_scalar: those of the first word, half of
\* them, a full word, too many
HdistScalarCounts ==
    {Min(Len(seq), BasesPerWord), Min(Len(seq), BasesPerWord) \div 2,
     BasesPerWord, BasesPerWord + 1}

\* hdist_scalar(ebuf[0], ebuf2[0], len)
HdistScalar ==
    /\ pc = "encoded_b"
    /\ res.tag = "Ok"
    /\ \E len \in HdistScalarCounts :
          LET r == hdist_scalar(ebuf[1], ebuf2[1], len)
          IN /\ dist' = r.val
             /\ res' = r.res
             /\ n_in' = len
    /\ pc' = "measured_word"
    /\ calls' = calls + 1
    /\ UNCHANGED <<build, split_vars, seq, seq2, ebuf, ebuf2, packed, dbuf, oob>>

\* the caller drops the last word of one buffer, of both or of none, then
\* hdist(ebuf, ebuf2, n) with the bases of seq or a word more
HdistCut ==
    /\ pc = "encoded_b"
    /\ res.tag = "Ok"
    /\ \E cut1 \in 0 .. 1, cut2 \in 0 .. 1, n \in {Len(seq), Len(seq) + BasesPerWord} :
          LET e1 == SubSeq(ebuf, 1, Len(ebuf) - cut1)
              e2 == SubSeq(ebuf2, 1, Len(ebuf2) - cut2)
              r == hdist(platform, e1, e2, n)
          IN /\ ebuf' = e1
             /\ ebuf2' = e2
             /\ dist' = r.val
             /\ res' = r.res
             /\ n_in' = n
    /\ pc' = "measured_cut"
    /\ calls' = calls + 1
    /\ UNCHANGED <<build, split_vars, seq, seq2, packed, dbuf, oob>>

NextHamming == EncodeA \/ EncodeB \/ Hdist \/ HdistScalar \/ HdistCut \/ Pack \/ Unpack

SpecHamming == InitHamming /\ [][NextHamming]_vars

----------------------------------------------------------------------------
(* Appending: the caller encodes seq, then decodes into one output buffer  *)
(* several times, by word and by stream, without clearing it, or splits    *)
(* the stream into two buffers it has used before.                         *)

AppendInputs == ValidInputs(MaxAppendLen) \ {<<>>}

\* what the output buffer may hold when the caller hands it over; the two
\* split buffers are fresh when it is, and hold earlier words when it does not
HeldBytes == {<<>>, <<Byte_G, Byte_N>>}

InitAppend ==
    /\ platform \in Platforms
    /\ overflow_checks \in BOOLEAN
    /\ seq \in AppendInputs
    /\ packed = ZeroWord
    /\ ebuf = <<>>
    /\ dbuf \in HeldBytes
    /\ n_in = 0
    /\ res = NoResult
    /\ oob = FALSE
    /\ calls = 0
    /\ seq2 = <<>>
    /\ ebuf2 = <<>>
    /\ lbuf \in {h \in HeldWords : (h = <<>>) <=> (dbuf = <<>>)}
    /\ rbuf = lbuf
    /\ idx_in = 0
    /\ dist = 0
    /\ pc = "start"

\* the base counts asked of the first word: those of a short tail, all the
\* word holds, too many
AppendWordCounts ==
    {Len(seq) % BasesPerWord, Min(Len(seq), BasesPerWord), BasesPerWord + 1}

\* the base counts asked of the stream: none, a prefix, all of seq, and a
\* full word more than the stream has
AppendStreamCounts ==
    {0, Len(seq) \div 2, Len(seq), BasesPerWord * (Len(ebuf) + 1)}

\* from_2bit(ebuf[0], n, dbuf), after a call that returned Ok
AppendWord ==
    /\ pc \in {"encoded", "word_appended", "stream_appended"}
    /\ res.tag = "Ok"
    /\ calls <= MaxCalls
    /\ \E n \in AppendWordCounts :
          LET r == from_2bit(platform, ebuf[1], n, dbuf)
          IN /\ dbuf' = r.out
             /\ res' = r.res
             /\ n_in' = n
    /\ packed' = ebuf[1]
    /\ pc' = "word_appended"
    /\ calls' = calls + 1
    /\ UNCHANGED <<build, split_vars, hdist_vars, seq, ebuf, oob>>

\* decode(ebuf, n, dbuf), after a call that returned Ok
AppendStream ==
    /\ pc \in {"encoded", "word_appended", "stream_appended"}
    /\ res.tag = "Ok"
    /\ calls <= MaxCalls
    /\ \E n \in AppendStreamCounts :
          LET r == decode(platform, overflow_checks, ebuf, n, dbuf)
          IN /\ dbuf' = r.buf
             /\ res' = r.res
             /\ n_in' = n
    /\ pc' = "stream_appended"
    /\ calls' = calls + 1
    /\ UNCHANGED <<build, split_vars, hdist_vars, seq, packed, ebuf, oob>>

NextAppend == EncodeFresh \/ AppendWord \/ AppendStream \/ Split

SpecAppend == InitAppend /\ [][NextAppend]_vars

----------------------------------------------------------------------------
(* What the operations are meant to compute, stated on the data.           *)

\* the 2-bit code of a letter: A = 0, C = 1, G = 2, T = 3, in either case
CodeOfBase(b) ==
    CASE Upper(b) = Byte_A -> 0
      [] Upper(b) = Byte_C -> 1
      [] Upper(b) = Byte_G -> 2
      [] Upper(b) = Byte_T -> 3

\* the word holding the bases of s (at most 32): base i at bits 2i, 2i + 1
PackedWordOf(s) ==
    {2 * (i - 1) : i \in {j \in 1 .. Len(s) : CodeOfBase(s[j]) % 2 = 1}}
    \cup {2 * (i - 1) + 1 : i \in {j \in 1 .. Len(s) : CodeOfBase(s[j]) >= 2}}

\* the packed stream of s: ceil(len / 32) words, in chunk order
PackedStreamOf(s) ==
    [k \in 1 .. DivCeil(Len(s), BasesPerWord) |->
        PackedWordOf(SubSeq(s, BasesPerWord * (k - 1) + 1,
                            Min(BasesPerWord * k, Len(s))))]

\* base i (0-based) of a packed stream, as an uppercase letter
BaseAt(words, i) ==
    LookupTable[Field(words[(i \div BasesPerWord) + 1], i % BasesPerWord) + 1]

\* the number of positions at which a and b hold different bases
HammingOf(a, b) == Cardinality({i \in 1 .. Len(a) : Upper(a[i]) # Upper(b[i])})

\* `after` is `before` followed by the first n bases of words
AppendedBy(before, after, words, n) ==
    /\ Len(after) = Len(before) + n
    /\ SubSeq(after, 1, Len(before)) = before
    /\ \A i \in 0 .. (n - 1) :
          (i \div BasesPerWord) < Len(words) =>
              after[Len(before) + i + 1] = BaseAt(words, i)

\* the bits of w below position 2n, and the words that agree with w there:
\* nothing above, everything above
LowBits(w, n) == {b \in w : b < 2 * n}

AgreeingWords(w, n) ==
    {LowBits(w, n), LowBits(w, n) \cup {b \in AllOnes : b >= 2 * n}}

\* the number of the first n 2-bit fields that differ between u and v
FieldsDiffering(u, v, n) ==
    Cardinality({i \in 0 .. (n - 1) : Field(u, i) # Field(v, i)})

\* words is a conformant stream of n bases: ceil(n / 32) words, and no bit
\* above the last base in the last one
Conformant(words, n) ==
    /\ Len(words) = DivCeil(n, BasesPerWord)
    /\ (n % BasesPerWord # 0) =>
          \A b \in words[Len(words)] : b < 2 * (n % BasesPerWord)

\* the sum of hdist_scalar(a[i], b[i], 32) over the first k words
RECURSIVE PerWordSum(_, _, _)
PerWordSum(a, b, k) ==
    IF k = 0 THEN 0
    ELSE PerWordSum(a, b, k - 1) + hdist_scalar(a[k], b[k], BasesPerWord).val

\* the index of the first byte of s out of the alphabet
FirstOffender(s) ==
    CHOOSE i \in 1 .. Len(s) :
        s[i] \notin ValidBytes /\ \A j \in 1 .. (i - 1) : s[j] \in ValidBytes

----------------------------------------------------------------------------
(* Claims.                                                                 *)

\* C1: for every sequence s over the alphabet, encode(s, buf) returns Ok and
\* decode(buf, len(s), out) on an empty out returns Ok with out = uppercase(s).
C1_StreamRoundTrip ==
    /\ (pc = "encoded" /\ AllValid(seq)) => res = Ok
    /\ (pc = "decoded" /\ n_in = Len(seq)) =>
          (res = Ok /\ dbuf = Uppercase(seq))

\* C2: for every conformant stream of one or more words and every idx in
\* 0 .. n_total, split_packed returns Ok, left holds the first idx bases of
\* the stream and right holds its remaining n_total - idx bases.
C2_SplitPreserves ==
    (pc = "split" /\ idx_in <= n_in) =>
        /\ res = Ok
        /\ Len(lbuf) >= DivCeil(idx_in, BasesPerWord)
        /\ Len(rbuf) >= DivCeil(n_in - idx_in, BasesPerWord)
        /\ \A i \in 0 .. (idx_in - 1) : BaseAt(lbuf, i) = BaseAt(ebuf, i)
        /\ \A j \in 0 .. (n_in - idx_in - 1) :
              BaseAt(rbuf, j) = BaseAt(ebuf, idx_in + j)

\* C3: for every pair of valid sequences a, b of one length n, both encode
\* calls return Ok and hdist of the two streams with n returns Ok(d), d the
\* number of positions at which a and b differ, case aside.
C3_HammingExact ==
    /\ pc \in {"encoded_a", "encoded_b"} => res = Ok
    /\ pc = "measured" => (res = Ok /\ dist = HammingOf(seq, seq2))

\* C4: for every valid sequence s of length L <= 32, as_2bit(s) returns Ok
\* and from_2bit of its word with L bases, on an empty out, yields
\* uppercase(s).
C4_WordRoundTrip ==
    /\ (pc = "packed" /\ AllValid(seq) /\ Len(seq) <= BasesPerWord) => res = Ok
    /\ (pc = "unpacked" /\ n_in = Len(seq)) =>
          (res = Ok /\ dbuf = Uppercase(seq))

C4_Witness ==
    /\ pc = "unpacked"
    /\ n_in = Len(seq)
    /\ Len(seq) = BasesPerWord
    /\ seq # Uppercase(seq)
    /\ dbuf = Uppercase(seq)

\* C5: on every input, valid or not, of any length, the kernel the dispatch
\* selects returns what the scalar as_2bit returns: the same word on success
\* and the same error on failure.
C5_KernelEquivalence ==
    pc = "packed" =>
        /\ res = naive_as_2bit(seq).res
        /\ packed = naive_as_2bit(seq).val

C5_Witness ==
    /\ pc = "packed"
    /\ platform = "avx2"
    /\ Len(seq) = 31
    /\ res = Ok
    /\ oob
    /\ packed # ZeroWord

\* C6: a word as_2bit returns for a valid sequence of length L has no bit at
\* a position >= 2L, and the final partial word of a stream encode produced
\* has no bit at a position >= 2 (N mod 32).
C6_ZeroPadding ==
    /\ (pc = "packed" /\ res = Ok) => \A b \in packed : b < 2 * Len(seq)
    /\ (pc = "encoded" /\ res = Ok /\ Len(seq) % BasesPerWord # 0) =>
          \A b \in ebuf[Len(ebuf)] : b < 2 * (Len(seq) % BasesPerWord)

C6_Witness ==
    /\ pc = "encoded"
    /\ res = Ok
    /\ platform = "avx2"
    /\ Len(seq) = 50
    /\ Len(ebuf) = 2
    /\ ebuf[2] # ZeroWord

\* C7: whenever encode(s, buf) returns Ok, buf holds exactly the packed
\* words of s in chunk order, ceil(len(s) / 32) of them, whatever buf held
\* before the call.
C7_EncodeClearsThenAppends ==
    (pc = "encoded" /\ res = Ok) =>
        /\ Len(ebuf) = DivCeil(Len(seq), BasesPerWord)
        /\ ebuf = PackedStreamOf(seq)

C7_Witness ==
    /\ pc = "encoded"
    /\ res = Ok
    /\ calls = 2
    /\ Len(seq) = 33
    /\ Len(ebuf) = 2

\* C8: encode of the empty byte sequence returns Ok and leaves the buffer
\* with zero words.
C8_EncodeEmpty ==
    (pc = "encoded" /\ seq = <<>>) => (res = Ok /\ ebuf = <<>>)

\* C9: decode of an empty word slice with n = 0 returns Ok and appends
\* nothing, on the scalar path and on the vector paths.
C9_DecodeEmpty ==
    (pc = "decoded_held" /\ ebuf = <<>> /\ n_in = 0) =>
        (res = Ok /\ dbuf = <<>>)

\* C10: as_2bit on an input of length <= 32 holding a byte out of the
\* alphabet returns InvalidBase(b), b being the first such byte.
C10_EarliestOffender ==
    (pc = "packed" /\ Len(seq) <= BasesPerWord /\ ~(\A i \in 1 .. Len(seq) : seq[i] \in ValidBytes)) =>
        res = Err("InvalidBase", seq[FirstOffender(seq)])

C10_Witness ==
    /\ pc = "packed"
    /\ platform = "avx2"
    /\ Len(seq) = 20
    /\ seq[5] = Byte_N
    /\ seq[20] = Byte_n
    /\ res = Err("InvalidBase", Byte_N)

\* C11: as_2bit on an input longer than 32 bytes returns
\* SequenceTooLong(len) whatever bytes it holds, and on an input of 32 bytes
\* or fewer it never returns SequenceTooLong.
C11_SequenceTooLong ==
    pc = "packed" =>
        /\ Len(seq) > BasesPerWord => res = Err("SequenceTooLong", Len(seq))
        /\ Len(seq) <= BasesPerWord => res.kind # "SequenceTooLong"

C11_Witness ==
    /\ pc = "packed"
    /\ Len(seq) = BasesPerWord + 1
    /\ seq[1] = Byte_N
    /\ res = Err("SequenceTooLong", BasesPerWord + 1)

\* C12: every from_2bit or decode call that returns Ok leaves the output
\* buffer equal to what it held before the call followed by the call's n
\* decoded bases: it grows by n bytes exactly, nothing before is altered.
C12_AppendOnly ==
    [][/\ (pc' = "word_appended" /\ res' = Ok) =>
              AppendedBy(dbuf, dbuf', <<packed'>>, n_in')
       /\ (pc' = "stream_appended" /\ res' = Ok) =>
              AppendedBy(dbuf, dbuf', ebuf, n_in')]_vars

\* C15: decode(words, n, out) returns InvalidLength(n) whenever words has
\* fewer than ceil(n / 32) entries, on the scalar and on the vector paths.
C15_DecodeTooFewWords ==
    (pc \in {"decoded", "decoded_held"} /\ Len(ebuf) < DivCeil(n_in, BasesPerWord)) =>
        res = Err("InvalidLength", n_in)

\* C13: from_2bit and hdist_scalar return InvalidLength(n) exactly when
\* n > 32, and hdist returns InvalidLength(n_bases) exactly when one of its
\* buffers has fewer than ceil(n_bases / 32) words.
C13_InvalidLength ==
    /\ pc \in {"unpacked", "measured_word"} =>
          IF n_in > BasesPerWord
          THEN res = Err("InvalidLength", n_in)
          ELSE res.kind # "InvalidLength"
    /\ pc \in {"measured", "measured_cut"} =>
          IF \/ Len(ebuf) < DivCeil(n_in, BasesPerWord)
             \/ Len(ebuf2) < DivCeil(n_in, BasesPerWord)
          THEN res = Err("InvalidLength", n_in)
          ELSE res.kind # "InvalidLength"

C13_Witness ==
    /\ pc = "measured_cut"
    /\ platform = "avx2"
    /\ n_in = MaxHammingLen
    /\ Len(ebuf) = DivCeil(n_in, BasesPerWord)
    /\ Len(ebuf2) = Len(ebuf) - 1
    /\ res = Err("InvalidLength", n_in)

\* C14: from_2bit(w, n, out) appends the same bytes for every word that
\* agrees with w on its low 2n bits, and from_2bit(as_2bit(s), k, out) with
\* k <= len(s) appends uppercase(s[0..k)).
C14_LowBitsOnly ==
    (pc = "unpacked" /\ n_in <= BasesPerWord) =>
        /\ res = Ok
        /\ n_in <= Len(seq) => dbuf = Uppercase(SubSeq(seq, 1, n_in))
        /\ \A w \in AgreeingWords(packed, n_in) :
              from_2bit(platform, w, n_in, <<>>) = UnpackOut(Ok, dbuf)

C14_Witness ==
    /\ pc = "unpacked"
    /\ platform = "avx2"
    /\ Len(seq) = BasesPerWord
    /\ n_in = BasesPerWord \div 2
    /\ packed # LowBits(packed, n_in)
    /\ dbuf = Uppercase(SubSeq(seq, 1, n_in))

\* C16: split_packed returns IndexOutOfBounds{index: idx, length: n_total}
\* exactly when idx > n_total; idx = n_total, and idx = 0 on an empty
\* stream, return Ok.
C16_IndexOutOfBounds ==
    pc \in {"split", "split_held"} =>
        IF idx_in > n_in
        THEN res = Err2("IndexOutOfBounds", idx_in, n_in)
        ELSE /\ res.kind # "IndexOutOfBounds"
             /\ (idx_in = n_in \/ (idx_in = 0 /\ ebuf = <<>>)) => res = Ok

C16_Witness ==
    /\ pc = "split"
    /\ n_in = BasesPerWord + 8
    /\ idx_in = n_in
    /\ res = Ok
    /\ Len(lbuf) = 2

\* C17: whenever a split_packed call returns Ok, left and right hold what
\* the call would have produced into empty buffers, whatever they held
\* before; the side that receives nothing is empty.
C17_SplitClears ==
    (pc \in {"split", "split_held"} /\ res = Ok) =>
        /\ lbuf = split_packed(ebuf, n_in, idx_in, <<>>, <<>>).lbuf
        /\ rbuf = split_packed(ebuf, n_in, idx_in, <<>>, <<>>).rbuf
        /\ idx_in = 0 => lbuf = <<>>
        /\ (idx_in = n_in /\ idx_in # 0) => rbuf = <<>>

C17_Witness ==
    /\ pc = "split"
    /\ calls = 3
    /\ res = Ok
    /\ idx_in = n_in
    /\ n_in = MaxSplitLen
    /\ Len(lbuf) = 3
    /\ rbuf = <<>>

\* C18: with idx = 0 right is the input words and left is empty; with
\* idx = n_total left is the input words and right is empty; with no input
\* word and idx = 0 both are empty.
C18_SplitEdgeCases ==
    pc \in {"split", "split_held"} =>
        /\ idx_in = 0 => (res = Ok /\ lbuf = <<>> /\ rbuf = ebuf)
        /\ idx_in = n_in => (res = Ok /\ lbuf = ebuf /\ rbuf = <<>>)
        /\ (idx_in = 0 /\ ebuf = <<>>) => (lbuf = <<>> /\ rbuf = <<>>)

C18_Witness ==
    /\ pc = "split"
    /\ idx_in = 0
    /\ n_in = MaxSplitLen
    /\ res = Ok
    /\ lbuf = <<>>
    /\ Len(rbuf) = 3

\* C19: for a conformant stream and idx in 0 .. n_total the right output
\* has ceil((n_total - idx) / 32) words.
C19_RightWordCount ==
    (pc = "split" /\ idx_in <= n_in) =>
        Len(rbuf) = DivCeil(n_in - idx_in, BasesPerWord)

\* C20: for 0 < idx < n_total, cw = idx / 32 and bi = 2 (idx mod 32), left
\* has cw + 1 words: the first cw input words, then input word cw cut to its
\* low bi bits; and when bi = 0 right is the input words from cw on.
C20_LeftLayout ==
    (pc = "split" /\ 0 < idx_in /\ idx_in < n_in) =>
        LET cw == idx_in \div BasesPerWord
            bi == 2 * (idx_in % BasesPerWord)
        IN /\ res = Ok
           /\ Len(lbuf) = cw + 1
           /\ SubSeq(lbuf, 1, cw) = SubSeq(ebuf, 1, cw)
           /\ lbuf[cw + 1] = {b \in ebuf[cw + 1] : b < bi}
           /\ bi = 0 => rbuf = SubSeq(ebuf, cw + 1, Len(ebuf))

C20_Witness ==
    /\ pc = "split"
    /\ n_in = BasesPerWord + 8
    /\ idx_in = BasesPerWord
    /\ Len(lbuf) = 2
    /\ lbuf[2] = ZeroWord
    /\ Len(rbuf) = 1
    /\ rbuf[1] # ZeroWord

\* C21: hdist_scalar(u, v, n) with n <= 32 returns the number of fields
\* i < n that differ between u and v, each once, whatever the words hold at
\* bit 2n and above.
C21_HdistScalarExact ==
    (pc = "measured_word" /\ n_in <= BasesPerWord) =>
        /\ res = Ok
        /\ dist = FieldsDiffering(ebuf[1], ebuf2[1], n_in)

C21_Witness ==
    /\ pc = "measured_word"
    /\ n_in = BasesPerWord \div 2
    /\ dist > 0
    /\ dist < FieldsDiffering(ebuf[1], ebuf2[1], BasesPerWord)

\* C22: hdist_scalar and hdist return the same result with their two
\* inputs exchanged, and Ok(0) when the two inputs are equal.
C22_HdistSymmetric ==
    /\ pc = "measured_word" =>
          /\ hdist_scalar(ebuf2[1], ebuf[1], n_in) = CountOut(res, dist)
          /\ n_in <= BasesPerWord =>
                hdist_scalar(ebuf[1], ebuf[1], n_in) = CountOut(Ok, 0)
          /\ (ebuf[1] = ebuf2[1] /\ n_in <= BasesPerWord) => (res = Ok /\ dist = 0)
    /\ pc \in {"measured", "measured_cut"} =>
          /\ hdist(platform, ebuf2, ebuf, n_in) = CountOut(res, dist)
          /\ Len(ebuf) >= DivCeil(n_in, BasesPerWord) =>
                hdist(platform, ebuf, ebuf, n_in) = CountOut(Ok, 0)
          /\ (ebuf = ebuf2 /\ res.tag = "Ok") => dist = 0

C22_Witness ==
    /\ pc = "measured"
    /\ platform = "avx2"
    /\ n_in = MaxHammingLen
    /\ seq # seq2
    /\ ebuf = ebuf2
    /\ res = Ok
    /\ dist = 0

\* C23: for a conformant stream words of n bases, decode(words, n) succeeds
\* and encode of the bases it produced yields words again, word for word.
C23_ReEncodeIdentity ==
    /\ (pc \in {"decoded", "decoded_held"} /\ Conformant(ebuf, n_in)) =>
          res = Ok
    /\ (pc = "reencoded" /\ Conformant(ebuf, n_in)) =>
          (res = Ok /\ ebuf2 = ebuf)

\* C24: no operation aborts: every call finishes with Ok or with a
\* NucleotideError, also on empty sequences, a base count of 0 and word
\* buffers that are too short.
C24_NoAbort == res.tag # "Panic"

\* C25: packing is case-insensitive: a sequence of at most 32 letters of
\* ACGTacgt packs to the same word as its uppercase form.
C25_CaseInsensitive ==
    (/\ pc = "packed"
     /\ \A i \in 1 .. Len(seq) : seq[i] \in ValidBytes
     /\ Len(seq) <= BasesPerWord) =>
        \A g \in GarbageBytes :
            LET r == as_2bit(platform, Uppercase(seq), g)
            IN r.res = res /\ r.val = packed /\ res = Ok

C25_Witness ==
    /\ pc = "packed"
    /\ platform = "sse2"
    /\ Len(seq) = BasesPerWord
    /\ \A i \in 1 .. Len(seq) : seq[i] \in ValidBytes
    /\ \E i \in 1 .. Len(seq) : seq[i] # Upper(seq[i])
    /\ \E i \in 1 .. Len(seq) : seq[i] = Upper(seq[i])
    /\ res = Ok
    /\ packed # ZeroWord

\* C26: whichever path runs, hdist returns the sum of
\* hdist_scalar(a[i], b[i], 32) over the n / 32 full words plus hdist_scalar
\* of the final word with n mod 32 bases: no full word is skipped or counted
\* twice.
C26_HdistPerWord ==
    (/\ pc \in {"measured", "measured_cut"}
     /\ Len(ebuf) >= DivCeil(n_in, BasesPerWord)
     /\ Len(ebuf2) >= DivCeil(n_in, BasesPerWord)) =>
        LET full_chunks == n_in \div BasesPerWord
            remaining_bases == n_in % BasesPerWord
        IN /\ res = Ok
           /\ dist = PerWordSum(ebuf, ebuf2, full_chunks)
                     + (IF remaining_bases > 0
                        THEN hdist_scalar(ebuf[full_chunks + 1],
                                          ebuf2[full_chunks + 1],
                                          remaining_bases).val
                        ELSE 0)

C26_Witness ==
    /\ pc = "measured"
    /\ platform = "avx2"
    /\ n_in \div BasesPerWord = 5
    /\ n_in % BasesPerWord > 0
    /\ res = Ok
    /\ ebuf[5] # ebuf2[5]
    /\ ebuf[6] # ebuf2[6]
    /\ dist > PerWordSum(ebuf, ebuf2, 4)

\* C27: on a sequence of any length with a byte out of the alphabet, encode
\* and the kernel-level stream encoder encode_internal return InvalidBase(b),
\* b the offending byte of smallest index in the whole sequence.
C27_FirstInvalidByte ==
    (/\ pc \in {"encoded", "encoded_internal"}
     /\ \E i \in 1 .. Len(seq) : seq[i] \notin ValidBytes) =>
        res = Err("InvalidBase", seq[FirstOffender(seq)])

\* C28: the pack kernels never read past the input: for every input of 0 to
\* 32 bytes, no load of the AVX2, SSE2 or NEON as_2bit covers an index at or
\* beyond the input's length.
C28_NoReadPastInput ==
    (pc = "packed" /\ Len(seq) <= BasesPerWord) => ~oob

\* C29: a validation failure leaves the outputs as they were: after
\* split_packed returns IndexOutOfBounds the left and right buffers hold what
\* they held before the call, and after from_2bit returns InvalidLength so
\* does its output buffer.
C29_FailureLeavesOutputs ==
    [][/\ (pc' = "split" /\ res'.kind = "IndexOutOfBounds") =>
              (lbuf' = lbuf /\ rbuf' = rbuf)
       /\ (pc' = "word_appended" /\ res'.kind = "InvalidLength") =>
              dbuf' = dbuf]_vars

C29_Witness ==
    /\ pc = "split"
    /\ res = Err2("IndexOutOfBounds", Len(seq) + 1, Len(seq))
    /\ ebuf # <<>>
    /\ lbuf # <<>>
    /\ rbuf # <<>>

\* C30: for every valid sequence s of n_total bases and every idx with
\* 0 < idx < n_total, the right output of split_packed(encode(s), n_total,
\* idx) equals encode(s[idx..]) word for word.
C30_RightIsEncodedSuffix ==
    (pc = "split" /\ 0 < idx_in /\ idx_in < n_in) =>
        /\ res = Ok
        /\ \A g \in GarbageBytes :
              rbuf = encode(platform, overflow_checks,
                            SliceFrom(seq, idx_in), g, <<>>).buf

====
